---- MODULE Spec2Model ----
(***************************************************************************)
(* Model of the trace pipeline of dragynfruit/traced.                      *)
(*                                                                         *)
(*   src/src/windows.rs  enter_ip : the per-frame UI step (start a trace,  *)
(*                                  then poll one event from the channel)  *)
(*   src/src/windows.rs  trace    : the orchestrator (self lookup, target  *)
(*                                  resolution, worker thread, enrichment  *)
(*                                  task)                                  *)
(*   src/src/plugins.rs  TracePath: nodes and the tracing flag             *)
(*                                                                         *)
(* Every trace gets an identity (its start number).  Events and nodes      *)
(* carry the identity of the trace and of the hop that produced them, so   *)
(* that statements about "the events of a trace" can be written down.      *)
(***************************************************************************)
EXTENDS Integers, Sequences, FiniteSets, TLC

(* Bounds of the model *)
MaxTraces == 3
MaxHops == 3

Traces == 1..MaxTraces
Hops == 1..MaxHops

(* The literal forms of the target string typed by the user *)
Targets == {"ip", "host"}
(* Outcomes of dns_lookup::lookup_host *)
LookupResults == {"ok", "empty", "err"}

VARIABLES
    nodes,      \* TracePath.nodes : sequence of <<index, TraceNode>>
    tracing,    \* TracePath.tracing
    chan,       \* TRACE_CHANNEL : the std mpsc channel, sender -> receiver
    started,    \* number of traces spawned so far (identity of the latest)
    target,     \* target[t] : literal form of the target trace(t) reads
    pc,         \* pc[t] : position of the task spawned by enter_ip
    txq,        \* txq[t] : the tokio channel tx -> rx of trace t
    txOpen,     \* txOpen[t] : a sender of txq[t] is still alive
    progq,      \* progq[t] : the tokio channel progress_tx -> progress_rx
    progOpen,   \* progOpen[t] : progress_tx is still alive
    worker,     \* worker[t] : position of the worker thread
    hopsOut,    \* hopsOut[t] : number of hops the tracer has reported
    enrich,     \* enrich[t] : position of the enrichment task
    emitted,    \* emitted[t] : history of the events sent on tx by trace t
    consumed,   \* consumed[t] : history of the events of t taken by the poll
    selfOk,     \* selfOk[t] : self-IP and self-location lookups succeeded
    locOk,      \* locOk[t] : hops whose geolocation lookup succeeded
    proj,       \* proj[i] : projector.project(position) of the i-th node
    hover_pos,  \* pointer.hover_pos() of the frame: None or a position
    any_click,  \* pointer.any_click() of the frame
    time,       \* input time of the frame, in milliseconds
    copy_anim_time, \* TracePath.copy_anim_time : None or a time
    rpc,        \* position of Plugin::run
    ri,         \* the element of nodes the drawing loop is at
    last_screen_pos, \* last_screen_pos : None or a position
    clip,       \* locals of line_rect_intersection while it runs
    clip_rounds, \* rounds of its loop that clipped, in the latest call
    circles,    \* painter: the circles drawn, <<index, position, colour>>
    lines,      \* painter: the line segments drawn, <<from, to>>
    clipped,    \* the calls of line_rect_intersection made, with results
    arrow_segments, \* arrow_segments : the arrows placed
    tooltip,    \* the node whose tooltip is shown: None or its index
    copied_text, \* output copied_text: None or an IP
    fpc,        \* position of enter_ip when it runs statement by statement
    ip_guard,   \* holder of the IP_INPUT mutex: "free", "ui" or "task"
    trace_guard \* holder of the TRACE_CHANNEL mutex, likewise

(* The variables Plugin::run reads and writes besides TracePath.nodes *)
rvars == <<proj, hover_pos, any_click, time, copy_anim_time, rpc, ri,
           last_screen_pos, clip, clip_rounds, circles, lines, clipped, arrow_segments,
           tooltip, copied_text>>

(* The position of enter_ip and the two mutexes it locks *)
lvars == <<fpc, ip_guard, trace_guard>>

vars == <<nodes, tracing, chan, started, target, pc, txq, txOpen, progq,
          progOpen, worker, hopsOut, enrich, emitted, consumed,
          selfOk, locOk, rvars, lvars>>

(* Option: None, or Some(x) *)
None == <<>>
Some(x) == <<x>>

(* TraceNode; hop 0 is the local vantage point *)
TraceNode(t, h) ==
    [hostname |-> IF h = 0 THEN "Local" ELSE "hop", trace |-> t, hop |-> h]

(* TraceEvent::Node(node) and TraceEvent::Finish.  Finish carries no node:  *)
(* its node field only records the trace that sent it.                     *)
NodeEvent(t, h) == [kind |-> "Node", node |-> TraceNode(t, h)]
FinishEvent(t) == [kind |-> "Finish", node |-> TraceNode(t, 0)]

IsNode(e) == e.kind = "Node"
IsFinish(e) == e.kind = "Finish"

(* No trace was started yet: no task, thread or channel exists *)
NoTrace ==
    /\ chan = <<>>
    /\ started = 0
    /\ target = [t \in Traces |-> "none"]
    /\ pc = [t \in Traces |-> "unspawned"]
    /\ txq = [t \in Traces |-> <<>>]
    /\ txOpen = [t \in Traces |-> FALSE]
    /\ progq = [t \in Traces |-> <<>>]
    /\ progOpen = [t \in Traces |-> FALSE]
    /\ worker = [t \in Traces |-> "none"]
    /\ hopsOut = [t \in Traces |-> 0]
    /\ enrich = [t \in Traces |-> "none"]
    /\ emitted = [t \in Traces |-> <<>>]
    /\ consumed = [t \in Traces |-> <<>>]
    /\ selfOk = [t \in Traces |-> FALSE]
    /\ locOk = [t \in Traces |-> {}]

(* Plugin::run is not running and has drawn nothing *)
NoFrame ==
    /\ proj = <<>>
    /\ hover_pos = None
    /\ any_click = FALSE
    /\ time = 0
    /\ copy_anim_time = None
    /\ rpc = "idle"
    /\ ri = 0
    /\ last_screen_pos = None
    /\ clip = None
    /\ clip_rounds = 0
    /\ circles = <<>>
    /\ lines = <<>>
    /\ clipped = <<>>
    /\ arrow_segments = <<>>
    /\ tooltip = None
    /\ copied_text = None

(* enter_ip is not running and both mutexes are free *)
NoGuard ==
    /\ fpc = "idle"
    /\ ip_guard = "free"
    /\ trace_guard = "free"

Init ==
    /\ nodes = <<>>
    /\ tracing = FALSE
    /\ NoTrace
    /\ NoFrame
    /\ NoGuard

(***************************************************************************)
(* The UI frame step: enter_ip                                             *)
(***************************************************************************)

(* Variant of StartRequested: the tracing flag is not tested.              *)
StartRequestedAlways(click) == click

(* The condition under which the frame starts a trace.  The text field and *)
(* the button are both created with add_enabled(!trace_path.tracing), and  *)
(* the condition tests !trace_path.tracing again; click stands for "Enter  *)
(* pressed in the text field or the Trace button clicked".                 *)
StartRequested(click) == ~tracing /\ click

(* Variant of Push: the index is taken from the producer's hop number.     *)
PushProducerIndex(ns, node) == Append(ns, <<node.hop, node>>)

(* Variant of Push: the new node goes to the front of the vector.          *)
PushFront(ns, node) == <<<<Len(ns), node>>>> \o ns

(* trace_path.nodes.push((trace_path.nodes.len(), node)) *)
Push(ns, node) == Append(ns, <<Len(ns), node>>)

(* TracePath::set_path: nodes.into_iter().enumerate().collect() *)
set_path(ns) == [i \in 1..Len(ns) |-> <<i - 1, ns[i]>>]

(* Variant of TryRecv: the poll drains the channel.                       *)
TryRecvAll(ch) == ch

(* receiver.try_recv(): the events one poll takes from the channel, at    *)
(* most the head; Err(Empty) is the empty sequence.                        *)
TryRecv(ch) == IF ch = <<>> THEN <<>> ELSE <<Head(ch)>>

(* Variant of PollNodes: Finish empties nodes.                            *)
PollNodesClearOnFinish(ns, got) ==
    IF got = <<>> THEN ns
    ELSE IF IsNode(got[1]) THEN Push(ns, got[1].node) ELSE <<>>

(* The match on the polled event, for nodes: Node(node) pushes the node  *)
(* with the current length as its index; Finish and an empty poll leave    *)
(* nodes alone.                                                            *)
PollNodes(ns, got) ==
    IF got # <<>> /\ IsNode(got[1]) THEN Push(ns, got[1].node) ELSE ns

(* Variant of PollTracing: Finish leaves the flag alone.                  *)
PollTracingStuck(tr, got) == tr

(* Variant of PollTracing: any event, a Node too, sets the flag false.    *)
PollTracingEarly(tr, got) == IF got # <<>> THEN FALSE ELSE tr

(* Variant of PollTracing: an empty poll counts as the end of the trace.  *)
PollTracingEmptyEnds(tr, got) ==
    IF got = <<>> \/ IsFinish(got[1]) THEN FALSE ELSE tr

(* The match on the polled event, for tracing: Finish sets it false.      *)
PollTracing(tr, got) ==
    IF got # <<>> /\ IsFinish(got[1]) THEN FALSE ELSE tr

(* Trace t is over: its task, its worker thread and its enrichment task   *)
(* have ended and none of its events is left in the channel.  Nothing of   *)
(* such a trace is left in the program.                                    *)
Over(t) ==
    /\ pc[t] = "done"
    /\ worker[t] \in {"none", "done", "panicked"}
    /\ enrich[t] \in {"none", "done"}
    /\ \A i \in 1..Len(chan) : chan[i].node.trace # t

(* The per-trace records f after a frame: when the frame starts a trace,  *)
(* the record of every trace that is over is dropped (back to init).       *)
Keep(f, start, init) ==
    [t \in Traces |-> IF start /\ Over(t) THEN init ELSE f[t]]

(* One call of enter_ip.  click and tgt are the user's input of the frame. *)
(* First the start of a trace (when requested): clear nodes, set tracing,  *)
(* spawn the task (whose first statements create the channels).  Then one  *)
(* poll of the channel.                                                    *)
EnterIp(click, tgt) ==
    LET start == StartRequested(click)
        t     == started + 1
        got   == TryRecv(chan)
    IN  /\ start => started < MaxTraces
        /\ IF start
           THEN /\ started' = t
                /\ target' = [target EXCEPT ![t] = tgt]
                /\ pc' = [Keep(pc, start, "released") EXCEPT ![t] = "get_my_ip"]
                /\ txOpen' = [txOpen EXCEPT ![t] = TRUE]
                /\ progOpen' = [progOpen EXCEPT ![t] = TRUE]
           ELSE UNCHANGED <<started, target, pc, txOpen, progOpen>>
        /\ chan' = SubSeq(chan, Len(got) + 1, Len(chan))
        /\ nodes' = PollNodes(IF start THEN <<>> ELSE nodes, got)
        /\ tracing' = PollTracing(IF start THEN TRUE ELSE tracing, got)
        /\ consumed' = [t2 \in Traces |->
              Keep(consumed, start, <<>>)[t2]
                  \o SelectSeq(got, LAMBDA e : e.node.trace = t2)]
        /\ emitted' = Keep(emitted, start, <<>>)
        /\ worker' = Keep(worker, start, "none")
        /\ enrich' = Keep(enrich, start, "none")
        /\ hopsOut' = Keep(hopsOut, start, 0)
        /\ selfOk' = Keep(selfOk, start, FALSE)
        /\ locOk' = Keep(locOk, start, {})
        /\ UNCHANGED <<rvars, lvars, txq, progq>>

(***************************************************************************)
(* The task spawned by enter_ip: trace(&ip).await, then the forwarding     *)
(* loop.                                                                   *)
(***************************************************************************)

(* tx.send(event) of trace t: the event joins the channel and the history *)
Send(t, e) ==
    /\ txq' = [txq EXCEPT ![t] = Append(@, e)]
    /\ emitted' = [emitted EXCEPT ![t] = Append(@, e)]

(* get_my_ip(&client).await; None skips the location lookup *)
GetMyIp(t) ==
    /\ pc[t] = "get_my_ip"
    /\ \E ok \in BOOLEAN :
          pc' = [pc EXCEPT ![t] = IF ok THEN "get_location" ELSE "resolve"]
    /\ UNCHANGED <<rvars, lvars, nodes, tracing, chan, started, target, txq, txOpen, progq,
                   progOpen, worker, hopsOut, enrich, emitted,
                   consumed, selfOk, locOk>>

(* Variant of GetSelfLocation: the "Local" node is sent whatever the       *)
(* lookup returned.                                                        *)
GetSelfLocationAlways(t) ==
    /\ pc[t] = "get_location"
    /\ \E ok \in BOOLEAN :
          /\ Send(t, NodeEvent(t, 0))
          /\ selfOk' = [selfOk EXCEPT ![t] = ok]
    /\ pc' = [pc EXCEPT ![t] = "resolve"]
    /\ UNCHANGED <<rvars, lvars, nodes, tracing, chan, started, target, txOpen, progq,
                   progOpen, worker, hopsOut, enrich, consumed, locOk>>

(* get_location(&client, ip).await for the own address; Some sends the    *)
(* "Local" node.                                                           *)
GetSelfLocation(t) ==
    /\ pc[t] = "get_location"
    /\ \E ok \in BOOLEAN :
          IF ok
          THEN /\ Send(t, NodeEvent(t, 0))
               /\ selfOk' = [selfOk EXCEPT ![t] = TRUE]
          ELSE UNCHANGED <<txq, emitted, selfOk>>
    /\ pc' = [pc EXCEPT ![t] = "resolve"]
    /\ UNCHANGED <<rvars, lvars, nodes, tracing, chan, started, target, txOpen, progq,
                   progOpen, worker, hopsOut, enrich, consumed,
                   locOk>>

(* The outcomes of resolving a target: an IP literal parses; a host name  *)
(* goes through lookup_host.                                               *)
Resolutions(tgt) == IF tgt = "ip" THEN {"ok"} ELSE LookupResults

(* Variant of Resolve: the failure path returns without sending Finish.   *)
ResolveNoFinish(t) ==
    /\ pc[t] = "resolve"
    /\ \E r \in Resolutions(target[t]) :
          IF r = "ok"
          THEN /\ pc' = [pc EXCEPT ![t] = "spawn"]
               /\ UNCHANGED <<txOpen, progOpen>>
          ELSE /\ txOpen' = [txOpen EXCEPT ![t] = FALSE]
               /\ progOpen' = [progOpen EXCEPT ![t] = FALSE]
               /\ pc' = [pc EXCEPT ![t] = "forward"]
    /\ target' = [target EXCEPT ![t] = "none"]
    /\ UNCHANGED <<rvars, lvars, nodes, tracing, chan, started, progq, worker, hopsOut,
                   enrich, consumed, selfOk, locOk, txq, emitted>>

(* Resolution of the target, the last use of the target string.  Without   *)
(* an address the task sends Finish and trace returns Ok(rx), which drops  *)
(* tx, progress_tx and progress_rx.                                        *)
Resolve(t) ==
    /\ pc[t] = "resolve"
    /\ \E r \in Resolutions(target[t]) :
          IF r = "ok"
          THEN /\ pc' = [pc EXCEPT ![t] = "spawn"]
               /\ UNCHANGED <<txq, emitted, txOpen, progOpen>>
          ELSE /\ Send(t, FinishEvent(t))
               /\ txOpen' = [txOpen EXCEPT ![t] = FALSE]
               /\ progOpen' = [progOpen EXCEPT ![t] = FALSE]
               /\ pc' = [pc EXCEPT ![t] = "forward"]
    /\ target' = [target EXCEPT ![t] = "none"]
    /\ UNCHANGED <<rvars, lvars, nodes, tracing, chan, started, progq, worker, hopsOut,
                   enrich, consumed, selfOk, locOk>>

(* thread::spawn of the worker, tokio::spawn of the enrichment task, and  *)
(* the return of Ok(rx) to the forwarding loop.                            *)
SpawnWorkers(t) ==
    /\ pc[t] = "spawn"
    /\ pc' = [pc EXCEPT ![t] = "forward"]
    /\ worker' = [worker EXCEPT ![t] = "new"]
    /\ enrich' = [enrich EXCEPT ![t] = "recv"]
    /\ UNCHANGED <<rvars, lvars, nodes, tracing, chan, started, target, txq, txOpen, progq,
                   progOpen, hopsOut, emitted, consumed, selfOk,
                   locOk>>

(* Variant of ChanSend: the event goes to the front of the channel.       *)
ChanSendFront(ch, e) == <<e>> \o ch

(* The channel after sender.send(event) *)
ChanSend(ch, e) == Append(ch, e)

(* One round of the forwarding loop: events.recv().await returned an     *)
(* event, sender.send(event).  When that leaves the channel empty with     *)
(* every sender dropped, the next recv() returns None and the task ends.   *)
Forward(t) ==
    /\ pc[t] = "forward"
    /\ txq[t] # <<>>
    /\ chan' = ChanSend(chan, Head(txq[t]))
    /\ txq' = [txq EXCEPT ![t] = Tail(@)]
    /\ pc' = [pc EXCEPT ![t] =
                 IF Tail(txq[t]) = <<>> /\ ~txOpen[t] THEN "done" ELSE "forward"]
    /\ UNCHANGED <<rvars, lvars, nodes, tracing, started, target, txOpen, progq, progOpen,
                   worker, hopsOut, enrich, emitted, consumed, selfOk, locOk>>

(***************************************************************************)
(* The worker thread and the enrichment task.  The hop discovery of the    *)
(* tracert crate is a stream of hop records that ends by closing: the      *)
(* worker's recv() returns the next hop or Err.                            *)
(***************************************************************************)

(* Variant of TracerNew: the failed worker keeps progress_tx alive.        *)
TracerNewLeak(t) ==
    /\ worker[t] = "new"
    /\ \E ok \in BOOLEAN :
          worker' = [worker EXCEPT ![t] = IF ok THEN "recv" ELSE "panicked"]
    /\ UNCHANGED <<rvars, lvars, nodes, tracing, chan, started, target, pc, txq, txOpen,
                   progq, progOpen, hopsOut, enrich, emitted, consumed,
                   selfOk, locOk>>

(* Tracer::new(ip).unwrap() followed by get_progress_receiver and the      *)
(* spawn of tracer.trace().  On Err the unwrap panics: the thread unwinds, *)
(* which drops the closure's captures, progress_tx among them.             *)
TracerNew(t) ==
    /\ worker[t] = "new"
    /\ \E ok \in BOOLEAN :
          IF ok
          THEN /\ worker' = [worker EXCEPT ![t] = "recv"]
               /\ UNCHANGED progOpen
          ELSE /\ worker' = [worker EXCEPT ![t] = "panicked"]
               /\ progOpen' = [progOpen EXCEPT ![t] = FALSE]
    /\ UNCHANGED <<rvars, lvars, nodes, tracing, chan, started, target, pc, txq, txOpen,
                   progq, hopsOut, enrich, emitted, consumed, selfOk, locOk>>

(* One round of the worker's loop: recv() returned the next hop,          *)
(* progress_tx.send(node).                                                 *)
WorkerRecv(t) ==
    /\ worker[t] = "recv"
    /\ hopsOut[t] < MaxHops
    /\ hopsOut' = [hopsOut EXCEPT ![t] = @ + 1]
    /\ progq' = [progq EXCEPT ![t] = Append(@, hopsOut[t] + 1)]
    /\ UNCHANGED <<rvars, lvars, nodes, tracing, chan, started, target, pc, txq, txOpen,
                   progOpen, worker, enrich, emitted, consumed, selfOk,
                   locOk>>

(* recv() returned Err (the hop stream ended): the worker's loop and      *)
(* thread end, progress_tx is dropped.                                     *)
WorkerEnd(t) ==
    /\ worker[t] = "recv"
    /\ worker' = [worker EXCEPT ![t] = "done"]
    /\ progOpen' = [progOpen EXCEPT ![t] = FALSE]
    /\ UNCHANGED <<rvars, lvars, nodes, tracing, chan, started, target, pc, txq, txOpen,
                   progq, hopsOut, enrich, emitted, consumed, selfOk, locOk>>

(* Variant of HopEvents: a hop whose lookup failed is sent all the same.  *)
HopEventsNoDrop(t, h, ok) == <<NodeEvent(t, h)>>

(* The events the enrichment task sends for hop h of trace t, given the   *)
(* outcome of get_location: the hop's node on Some, nothing on None.       *)
HopEvents(t, h, ok) == IF ok THEN <<NodeEvent(t, h)>> ELSE <<>>

(* One round of the enrichment loop: progress_rx.recv().await returned a  *)
(* hop, get_location(&client, &ip_str).await, tx.send on success.          *)
Enrich(t) ==
    /\ enrich[t] = "recv"
    /\ progq[t] # <<>>
    /\ \E ok \in BOOLEAN :
          LET h == Head(progq[t])
              evs == HopEvents(t, h, ok)
          IN  /\ txq' = [txq EXCEPT ![t] = @ \o evs]
              /\ emitted' = [emitted EXCEPT ![t] = @ \o evs]
              /\ locOk' = [locOk EXCEPT ![t] = IF ok THEN @ \cup {h} ELSE @]
    /\ progq' = [progq EXCEPT ![t] = Tail(@)]
    /\ UNCHANGED <<rvars, lvars, nodes, tracing, chan, started, target, pc, txOpen,
                   progOpen, worker, hopsOut, enrich, consumed,
                   selfOk>>

(* Variant of EnrichFinish: the enrichment loop ends as soon as the       *)
(* progress channel is empty, the worker still holding progress_tx.        *)
EnrichFinishEarly(t) ==
    /\ enrich[t] = "recv"
    /\ progq[t] = <<>>
    /\ Send(t, FinishEvent(t))
    /\ txOpen' = [txOpen EXCEPT ![t] = FALSE]
    /\ enrich' = [enrich EXCEPT ![t] = "done"]
    /\ UNCHANGED <<rvars, lvars, nodes, tracing, chan, started, target, pc, progq,
                   progOpen, worker, hopsOut, consumed, selfOk,
                   locOk>>

(* progress_rx.recv().await returned None (channel empty, progress_tx     *)
(* dropped): tx.send(TraceEvent::Finish), the task ends and drops tx.      *)
EnrichFinish(t) ==
    /\ enrich[t] = "recv"
    /\ progq[t] = <<>>
    /\ ~progOpen[t]
    /\ Send(t, FinishEvent(t))
    /\ txOpen' = [txOpen EXCEPT ![t] = FALSE]
    /\ enrich' = [enrich EXCEPT ![t] = "done"]
    /\ UNCHANGED <<rvars, lvars, nodes, tracing, chan, started, target, pc, progq,
                   progOpen, worker, hopsOut, consumed, selfOk,
                   locOk>>

(***************************************************************************)
(* Specifications                                                          *)
(***************************************************************************)

Frame == \E click \in BOOLEAN, tgt \in Targets : EnterIp(click, tgt)

Next ==
    \/ Frame
    \/ \E t \in Traces : GetMyIp(t)
    \/ \E t \in Traces : GetSelfLocation(t)
    \/ \E t \in Traces : Resolve(t)
    \/ \E t \in Traces : SpawnWorkers(t)
    \/ \E t \in Traces : Forward(t)
    \/ \E t \in Traces : TracerNew(t)
    \/ \E t \in Traces : WorkerRecv(t)
    \/ \E t \in Traces : WorkerEnd(t)
    \/ \E t \in Traces : Enrich(t)
    \/ \E t \in Traces : EnrichFinish(t)

Spec == Init /\ [][Next]_vars

(* The scheduling the program relies on: the UI redraws, the runtime runs *)
(* every ready task, the threads run, and the hop discovery ends.  The     *)
(* user is not obliged to start a trace.                                   *)
Fairness ==
    /\ WF_vars(EnterIp(FALSE, "ip"))
    /\ \A t \in Traces :
          /\ WF_vars(GetMyIp(t))
          /\ WF_vars(GetSelfLocation(t))
          /\ WF_vars(Resolve(t))
          /\ WF_vars(SpawnWorkers(t))
          /\ WF_vars(Forward(t))
          /\ WF_vars(TracerNew(t))
          /\ WF_vars(WorkerRecv(t) \/ WorkerEnd(t))
          /\ WF_vars(Enrich(t))
          /\ WF_vars(EnrichFinish(t))

FairSpec == Spec /\ Fairness

(* The scheduling without the UI: the runtime runs every ready task, the  *)
(* threads run and the hop discovery ends, but no frame need ever be       *)
(* drawn.                                                                  *)
ProducerFairness ==
    \A t \in Traces :
        /\ WF_vars(GetMyIp(t))
        /\ WF_vars(GetSelfLocation(t))
        /\ WF_vars(Resolve(t))
        /\ WF_vars(SpawnWorkers(t))
        /\ WF_vars(Forward(t))
        /\ WF_vars(TracerNew(t))
        /\ WF_vars(WorkerRecv(t) \/ WorkerEnd(t))
        /\ WF_vars(Enrich(t))
        /\ WF_vars(EnrichFinish(t))

ProducerFairSpec == Spec /\ ProducerFairness

(***************************************************************************)
(* The path renderer: Plugin::run and line_rect_intersection               *)
(* (src/src/plugins.rs).                                                   *)
(*                                                                         *)
(* Screen coordinates are f32 in the program.  Here they are exact         *)
(* rationals <<n, d>> in lowest terms with d > 0: the arithmetic of the    *)
(* program without its rounding.  A division by zero gives NaN, <<0, 0>>,  *)
(* which every operation passes on and every comparison finds false.       *)
(***************************************************************************)

Abs(n) == IF n < 0 THEN -n ELSE n

RECURSIVE GCD(_, _)
GCD(a, b) == IF b = 0 THEN a ELSE GCD(b, a % b)

NaN == <<0, 0>>

(* n / d in lowest terms, the sign in the numerator *)
Norm(n, d) ==
    IF d = 0 THEN NaN
    ELSE LET g == GCD(Abs(n), Abs(d))
             s == IF d < 0 THEN -1 ELSE 1
         IN  <<s * (n \div g), s * (d \div g)>>

Q(n) == <<n, 1>>
QAdd(a, b) == Norm(a[1] * b[2] + b[1] * a[2], a[2] * b[2])
QSub(a, b) == Norm(a[1] * b[2] - b[1] * a[2], a[2] * b[2])
QMul(a, b) == Norm(a[1] * b[1], a[2] * b[2])
QDiv(a, b) == Norm(a[1] * b[2], a[2] * b[1])
QLt(a, b) == a[2] # 0 /\ b[2] # 0 /\ a[1] * b[2] < b[1] * a[2]
QLe(a, b) == a[2] # 0 /\ b[2] # 0 /\ a[1] * b[2] <= b[1] * a[2]
QGt(a, b) == QLt(b, a)

(* pos2(x, y) with integer coordinates *)
Pos(x, y) == <<Q(x), Q(y)>>

(* ui.clip_rect(): the viewport, min at the top left, max at the bottom    *)
(* right (y grows downwards).                                              *)
screen_rect == [min |-> Pos(0, 0), max |-> Pos(100, 60)]

(* egui::Rect::from_two_pos *)
RectFromTwoPos(a, b) ==
    [min |-> <<IF QLt(b[1], a[1]) THEN b[1] ELSE a[1],
               IF QLt(b[2], a[2]) THEN b[2] ELSE a[2]>>,
     max |-> <<IF QLt(a[1], b[1]) THEN b[1] ELSE a[1],
               IF QLt(a[2], b[2]) THEN b[2] ELSE a[2]>>]

(* egui::Rect::intersects: the closed rectangles share a point *)
RectIntersects(r, o) ==
    /\ QLe(r.min[1], o.max[1]) /\ QLe(o.min[1], r.max[1])
    /\ QLe(r.min[2], o.max[2]) /\ QLe(o.min[2], r.max[2])

(* The square of Vec2::length of b - a *)
LengthSq(a, b) ==
    LET dx == QSub(b[1], a[1])
        dy == QSub(b[2], a[2])
    IN  QAdd(QMul(dx, dx), QMul(dy, dy))

(* Cohen-Sutherland region codes *)
INSIDE == 0
LEFT == 1
RIGHT == 2
BOTTOM == 4
TOP == 8

(* a & b on u8 *)
RECURSIVE BitAnd(_, _)
BitAnd(a, b) ==
    IF a = 0 \/ b = 0 THEN 0
    ELSE (a % 2) * (b % 2) + 2 * BitAnd(a \div 2, b \div 2)

(* compute_code: the bits are of different positions, so | is +. *)
compute_code(p, rect) ==
    (IF QLt(p[1], rect.min[1]) THEN LEFT
     ELSE IF QGt(p[1], rect.max[1]) THEN RIGHT ELSE INSIDE)
    + (IF QLt(p[2], rect.min[2]) THEN TOP
       ELSE IF QGt(p[2], rect.max[2]) THEN BOTTOM ELSE INSIDE)

(* The locals of line_rect_intersection on entry to its loop *)
ClipStart(start, end, rect) ==
    [x1 |-> start[1], y1 |-> start[2], x2 |-> end[1], y2 |-> end[2],
     code1 |-> compute_code(start, rect), code2 |-> compute_code(end, rect)]

(* The loop returns in this round: Some when both codes are 0, None when   *)
(* the codes share a bit.                                                  *)
ClipReturns(c) ==
    (c.code1 = 0 /\ c.code2 = 0) \/ BitAnd(c.code1, c.code2) # 0

(* Variant of ClipResult: the two ends are returned in the other order.   *)
ClipResultSwapped(c) ==
    IF c.code1 = 0 /\ c.code2 = 0
    THEN Some(<<<<c.x2, c.y2>>, <<c.x1, c.y1>>>>)
    ELSE None

(* Variant of ClipResult: the ends are returned whatever the codes.       *)
ClipResultAlwaysSome(c) == Some(<<<<c.x1, c.y1>>, <<c.x2, c.y2>>>>)

(* The value the loop returns with *)
ClipResult(c) ==
    IF c.code1 = 0 /\ c.code2 = 0
    THEN Some(<<<<c.x1, c.y1>>, <<c.x2, c.y2>>>>)
    ELSE None

(* Variant of ClipPoint: the outside point is moved straight onto the     *)
(* boundary line, its other coordinate kept.                               *)
ClipPointClamped(c, code, rect) ==
    LET p == IF code = c.code1 THEN <<c.x1, c.y1>> ELSE <<c.x2, c.y2>>
    IN  IF BitAnd(code, TOP) # 0 THEN <<p[1], rect.min[2]>>
        ELSE IF BitAnd(code, BOTTOM) # 0 THEN <<p[1], rect.max[2]>>
        ELSE IF BitAnd(code, RIGHT) # 0 THEN <<rect.max[1], p[2]>>
        ELSE <<rect.min[1], p[2]>>

(* The point the else branch of the loop computes for the outside point   *)
(* with region code `code`.                                                *)
ClipPoint(c, code, rect) ==
    LET dx == QSub(c.x2, c.x1)
        dy == QSub(c.y2, c.y1)
    IN  IF BitAnd(code, TOP) # 0
        THEN <<QAdd(c.x1, QDiv(QMul(dx, QSub(rect.min[2], c.y1)), dy)),
               rect.min[2]>>
        ELSE IF BitAnd(code, BOTTOM) # 0
        THEN <<QAdd(c.x1, QDiv(QMul(dx, QSub(rect.max[2], c.y1)), dy)),
               rect.max[2]>>
        ELSE IF BitAnd(code, RIGHT) # 0
        THEN <<rect.max[1],
               QAdd(c.y1, QDiv(QMul(dy, QSub(rect.max[1], c.x1)), dx))>>
        ELSE <<rect.min[1],
               QAdd(c.y1, QDiv(QMul(dy, QSub(rect.min[1], c.x1)), dx))>>

(* Variant of ClipStep: the computed point replaces the other end.        *)
ClipStepOtherEnd(c, rect) ==
    LET code == IF c.code1 # 0 THEN c.code1 ELSE c.code2
        p == ClipPoint(c, code, rect)
    IN  IF code = c.code1
        THEN [c EXCEPT !.x2 = p[1], !.y2 = p[2],
                       !.code2 = compute_code(p, rect)]
        ELSE [c EXCEPT !.x1 = p[1], !.y1 = p[2],
                       !.code1 = compute_code(p, rect)]

(* One round of the loop that does not return: the outside point (the     *)
(* first one when it is outside) moves to the boundary.                    *)
ClipStep(c, rect) ==
    LET code == IF c.code1 # 0 THEN c.code1 ELSE c.code2
        p == ClipPoint(c, code, rect)
    IN  IF code = c.code1
        THEN [c EXCEPT !.x1 = p[1], !.y1 = p[2],
                       !.code1 = compute_code(p, rect)]
        ELSE [c EXCEPT !.x2 = p[1], !.y2 = p[2],
                       !.code2 = compute_code(p, rect)]

RECURSIVE ClipLoop(_, _)
ClipLoop(c, rect) ==
    IF ClipReturns(c) THEN ClipResult(c) ELSE ClipLoop(ClipStep(c, rect), rect)

(* line_rect_intersection as a function: None or Some(<<a, b>>) *)
line_rect_intersection(start, end, rect) ==
    ClipLoop(ClipStart(start, end, rect), rect)

(* Longest path drawn *)
MaxPath == 5

(* Projected positions of the two ends of a single segment: inside, on    *)
(* the boundary of and outside the viewport, on every side of it.          *)
SegmentPoints ==
    {Pos(x, y) : x \in {-40, 0, 5, 100, 140},
                 y \in {-30, -10, 0, 30, 60, 70, 90}}

(* Projected positions of the nodes of a hovered path, and the pointer's  *)
(* positions: (50,30) is at distance 10 of (56,38), (53,34) at distance 5  *)
(* of both, (90,50) far from both.                                         *)
PathPoints == {Pos(50, 30), Pos(56, 38)}
PointerPositions == {Pos(50, 30), Pos(53, 34), Pos(90, 50)}

(* Times in milliseconds: the frame's time, and the times a copy could    *)
(* have been made at (1.5 s and 1 s before the frame).                     *)
FrameTime == 2000
CopyTimes == {500, 1000}

(* The IP string of a node: one per node of a trace *)
NodeIp(node) == <<"ip", node.trace, node.hop>>

(* The path of the first n nodes of a trace, as enter_ip builds it *)
PathOf(n) == set_path([i \in 1..n |-> TraceNode(1, i - 1)])

(* A frame is about to be drawn: Plugin::run is called with some path,    *)
(* projection and pointer input.  Either a single segment anywhere around  *)
(* the viewport, the pointer away; or a path of up to MaxPath nodes inside *)
(* the viewport with the pointer on it or not.                             *)
RenderInit ==
    /\ tracing = FALSE
    /\ NoTrace
    /\ NoGuard
    /\ time = FrameTime
    /\ rpc = "run"
    /\ ri = 0
    /\ last_screen_pos = None
    /\ clip = None
    /\ clip_rounds = 0
    /\ circles = <<>>
    /\ lines = <<>>
    /\ clipped = <<>>
    /\ arrow_segments = <<>>
    /\ tooltip = None
    /\ copied_text = None
    /\ \/ /\ nodes = PathOf(2)
          /\ proj \in [1..2 -> SegmentPoints]
          /\ hover_pos = None
          /\ any_click = FALSE
          /\ copy_anim_time = None
       \/ \E n \in 0..MaxPath :
             /\ nodes = PathOf(n)
             /\ proj \in [1..n -> PathPoints]
             /\ hover_pos \in {Some(p) : p \in PointerPositions} \cup {None}
             /\ any_click \in BOOLEAN
             /\ copy_anim_time \in {Some(c) : c \in CopyTimes} \cup {None}

(* Variant of NodeColor: the last index is tested first.                   *)
NodeColorLastFirst(idx, len) ==
    IF idx = len - 1 THEN "RED"
    ELSE IF idx = 0 THEN "GREEN" ELSE "YELLOW"

(* The fill colour of the node with index idx in a path of len nodes *)
NodeColor(idx, len) ==
    IF idx = 0 THEN "GREEN"
    ELSE IF idx = len - 1 THEN "RED" ELSE "YELLOW"

arrow_spacing == 30

(* (vis_length / arrow_spacing).floor(), from the square of vis_length:   *)
(* the largest k with (k * arrow_spacing)^2 <= vis_length^2, counted up    *)
(* from k.                                                                 *)
RECURSIVE FloorOfRatio(_, _, _)
FloorOfRatio(lsq, spacing, k) ==
    IF (k + 1) * (k + 1) * spacing * spacing * lsq[2] <= lsq[1]
    THEN FloorOfRatio(lsq, spacing, k + 1)
    ELSE k

(* Variant of NumArrows: the quotient is rounded up.                       *)
NumArrowsCeil(vis_start, vis_end) ==
    LET lsq == LengthSq(vis_start, vis_end)
        k == FloorOfRatio(lsq, arrow_spacing, 0)
    IN  IF k * k * arrow_spacing * arrow_spacing * lsq[2] = lsq[1]
        THEN k ELSE k + 1

(* num_arrows *)
NumArrows(vis_start, vis_end) ==
    FloorOfRatio(LengthSq(vis_start, vis_end), arrow_spacing, 0)

(* t of the arrow i (from 0) of num_arrows *)
ArrowT(i, num_arrows) == QDiv(Q(i + 1), Q(num_arrows + 1))

(* The arrows pushed for the visible part vis_start..vis_end of the       *)
(* segment that ends at element seg of nodes.  Of the polygon only the tip *)
(* (arrow_pos) is kept.                                                    *)
Arrows(seg, vis_start, vis_end) ==
    LET n == NumArrows(vis_start, vis_end)
        dx == QSub(vis_end[1], vis_start[1])
        dy == QSub(vis_end[2], vis_start[2])
    IN  IF ~QGt(LengthSq(vis_start, vis_end), Q(0)) THEN <<>>
        ELSE [k \in 1..n |->
                 LET t == ArrowT(k - 1, n)
                 IN  [seg |-> seg, i |-> k - 1, num_arrows |-> n, t |-> t,
                      arrow_pos |-> <<QAdd(vis_start[1], QMul(dx, t)),
                                      QAdd(vis_start[2], QMul(dy, t))>>]]

(* The drawing loop goes on to its next element, or ends *)
NextNode ==
    /\ ri' = ri + 1
    /\ rpc' = IF ri + 1 > Len(nodes) THEN "hover" ELSE "node"

(* Entry of Plugin::run: return when nodes is empty, else set up the      *)
(* drawing loop.                                                           *)
Run ==
    /\ rpc = "run"
    /\ IF nodes = <<>>
       THEN rpc' = "done" /\ ri' = ri
       ELSE rpc' = "node" /\ ri' = 1
    /\ UNCHANGED <<lvars, clip_rounds, nodes, tracing, chan, started, target, pc, txq, txOpen,
                   progq, progOpen, worker, hopsOut, enrich, emitted,
                   consumed, selfOk, locOk, proj, hover_pos, any_click, time,
                   copy_anim_time, last_screen_pos, clip, circles, lines,
                   clipped, arrow_segments, tooltip, copied_text>>

(* One round of the drawing loop up to the call of line_rect_intersection: *)
(* the circle in the colour of the index, the full line from the previous  *)
(* node, the culling tests.  When the call is not made the round ends.     *)
DrawNode ==
    /\ rpc = "node"
    /\ LET idx == nodes[ri][1]
           screen_pos == proj[ri]
           last_pos == last_screen_pos[1]
       IN  /\ circles' = Append(circles,
                 <<idx, screen_pos, NodeColor(idx, Len(nodes))>>)
           /\ IF last_screen_pos = None
              THEN /\ UNCHANGED <<lines, clip, clip_rounds>>
                   /\ last_screen_pos' = Some(screen_pos)
                   /\ NextNode
              ELSE /\ lines' = Append(lines, <<last_pos, screen_pos>>)
                   /\ IF /\ RectIntersects(screen_rect,
                                RectFromTwoPos(last_pos, screen_pos))
                         /\ QGt(LengthSq(last_pos, screen_pos), Q(0))
                      THEN /\ clip' = Some(ClipStart(last_pos, screen_pos,
                                                     screen_rect))
                           /\ clip_rounds' = 0
                           /\ rpc' = "clip"
                           /\ UNCHANGED <<ri, last_screen_pos>>
                      ELSE /\ UNCHANGED <<clip, clip_rounds>>
                           /\ last_screen_pos' = Some(screen_pos)
                           /\ NextNode
    /\ UNCHANGED <<lvars, nodes, tracing, chan, started, target, pc, txq, txOpen,
                   progq, progOpen, worker, hopsOut, enrich, emitted,
                   consumed, selfOk, locOk, proj, hover_pos, any_click, time,
                   copy_anim_time, clipped, arrow_segments, tooltip,
                   copied_text>>

(* One round of the loop of line_rect_intersection that clips *)
ClipIter ==
    /\ rpc = "clip"
    /\ ~ClipReturns(clip[1])
    /\ clip' = Some(ClipStep(clip[1], screen_rect))
    /\ clip_rounds' = clip_rounds + 1
    /\ UNCHANGED <<lvars, nodes, tracing, chan, started, target, pc, txq, txOpen,
                   progq, progOpen, worker, hopsOut, enrich, emitted,
                   consumed, selfOk, locOk, proj, hover_pos, any_click, time,
                   copy_anim_time, rpc, ri, last_screen_pos, circles, lines,
                   clipped, arrow_segments, tooltip, copied_text>>

(* The round of the loop of line_rect_intersection that returns, and the  *)
(* rest of the round of the drawing loop: the arrows of the visible part.  *)
ClipReturn ==
    /\ rpc = "clip"
    /\ ClipReturns(clip[1])
    /\ LET start == ClipResult(clip[1])
       IN  /\ clipped' = Append(clipped,
                 [seg |-> ri, start |-> last_screen_pos[1], end |-> proj[ri],
                  result |-> start])
           /\ arrow_segments' =
                 IF start = None THEN arrow_segments
                 ELSE arrow_segments \o Arrows(ri, start[1][1], start[1][2])
    /\ clip' = None
    /\ last_screen_pos' = Some(proj[ri])
    /\ NextNode
    /\ UNCHANGED <<lvars, clip_rounds, nodes, tracing, chan, started, target, pc, txq, txOpen,
                   progq, progOpen, worker, hopsOut, enrich, emitted,
                   consumed, selfOk, locOk, proj, hover_pos, any_click, time,
                   copy_anim_time, circles, lines, tooltip, copied_text>>

hover_radius == 10

(* Variant of Near: the distance may equal the radius.                     *)
NearOrAt(mouse_pos, screen_pos) ==
    QLe(LengthSq(mouse_pos, screen_pos), Q(hover_radius * hover_radius))

(* mouse_pos.distance(screen_pos) < 10.0 *)
Near(mouse_pos, screen_pos) ==
    QLt(LengthSq(mouse_pos, screen_pos), Q(hover_radius * hover_radius))

(* The hover loop from element i on: the first element near the pointer,  *)
(* 0 when the loop ends without one.                                       *)
RECURSIVE HoverScan(_, _)
HoverScan(mouse_pos, i) ==
    IF i > Len(nodes) THEN 0
    ELSE IF Near(mouse_pos, proj[i]) THEN i
    ELSE HoverScan(mouse_pos, i + 1)

(* age > 1.0, in milliseconds *)
copy_anim_ms == 1000

(* The hover handling after the drawing loop: the tooltip of the first    *)
(* node near the pointer, the expiry of the copied-confirmation, and the   *)
(* copy on a click.                                                        *)
Hover ==
    /\ rpc = "hover"
    /\ rpc' = "done"
    /\ LET hit == IF hover_pos = None THEN 0 ELSE HoverScan(hover_pos[1], 1)
           expired == copy_anim_time # None
                          /\ time - copy_anim_time[1] > copy_anim_ms
           show_copied == copy_anim_time # None /\ ~expired
       IN  IF hit = 0
           THEN UNCHANGED <<tooltip, copied_text, copy_anim_time>>
           ELSE /\ tooltip' = Some([idx |-> nodes[hit][1],
                                    ip |-> NodeIp(nodes[hit][2]),
                                    show_copied |-> show_copied])
                /\ copied_text' = IF any_click
                                  THEN Some(NodeIp(nodes[hit][2]))
                                  ELSE copied_text
                /\ copy_anim_time' = IF any_click THEN Some(time)
                                     ELSE IF expired THEN None
                                     ELSE copy_anim_time
    /\ UNCHANGED <<lvars, clip_rounds, nodes, tracing, chan, started, target, pc, txq, txOpen,
                   progq, progOpen, worker, hopsOut, enrich, emitted,
                   consumed, selfOk, locOk, proj, hover_pos, any_click, time,
                   ri, last_screen_pos, clip, circles, lines, clipped,
                   arrow_segments>>

RenderNext ==
    \/ Run
    \/ DrawNode
    \/ ClipIter
    \/ ClipReturn
    \/ Hover

RenderSpec == RenderInit /\ [][RenderNext]_vars

(***************************************************************************)
(* enter_ip statement by statement, with the two mutexes it locks.  The    *)
(* statics IP_INPUT and TRACE_CHANNEL are local to enter_ip: no other      *)
(* function can name them.  lock() waits while the mutex is held, by any   *)
(* thread, the caller included.                                            *)
(***************************************************************************)

(* ip_input.lock() at the head of the row's closure, the widgets, and the  *)
(* test of the start condition.  click is the user's input of the frame.   *)
LockIp(click) ==
    /\ fpc = "idle"
    /\ ip_guard = "free"
    /\ ip_guard' = "ui"
    /\ fpc' = IF StartRequested(click) /\ started < MaxTraces
              THEN "lock_trace_start" ELSE "end_row"
    /\ UNCHANGED <<rvars, trace_guard, nodes, tracing, chan, started, target,
                   pc, txq, txOpen, progq, progOpen, worker, hopsOut, enrich,
                   emitted, consumed, selfOk, locOk>>

(* trace_channel.lock() in the start branch *)
LockTraceStart ==
    /\ fpc = "lock_trace_start"
    /\ trace_guard = "free"
    /\ trace_guard' = "ui"
    /\ fpc' = "spawn"
    /\ UNCHANGED <<rvars, ip_guard, nodes, tracing, chan, started, target,
                   pc, txq, txOpen, progq, progOpen, worker, hopsOut, enrich,
                   emitted, consumed, selfOk, locOk>>

(* Variant of StartTrace: the guard goes into the spawned task instead of  *)
(* being dropped at the end of the branch.                                 *)
StartTraceGuardMoved(tgt) ==
    LET t == started + 1
    IN  /\ fpc = "spawn"
        /\ started' = t
        /\ target' = [target EXCEPT ![t] = tgt]
        /\ pc' = [Keep(pc, TRUE, "released") EXCEPT ![t] = "get_my_ip"]
        /\ txOpen' = [txOpen EXCEPT ![t] = TRUE]
        /\ progOpen' = [progOpen EXCEPT ![t] = TRUE]
        /\ nodes' = <<>>
        /\ tracing' = TRUE
        /\ consumed' = Keep(consumed, TRUE, <<>>)
        /\ emitted' = Keep(emitted, TRUE, <<>>)
        /\ worker' = Keep(worker, TRUE, "none")
        /\ enrich' = Keep(enrich, TRUE, "none")
        /\ hopsOut' = Keep(hopsOut, TRUE, 0)
        /\ selfOk' = Keep(selfOk, TRUE, FALSE)
        /\ locOk' = Keep(locOk, TRUE, {})
        /\ trace_guard' = "task"
        /\ fpc' = "end_row"
        /\ UNCHANGED <<rvars, ip_guard, chan, txq, progq>>

(* The start branch after the lock: clone the sender and the typed text    *)
(* (tgt is its form), clear nodes, set tracing, spawn the task with the    *)
(* two clones.  The branch ends and trace_guard is dropped.                *)
StartTrace(tgt) ==
    LET t == started + 1
    IN  /\ fpc = "spawn"
        /\ started' = t
        /\ target' = [target EXCEPT ![t] = tgt]
        /\ pc' = [Keep(pc, TRUE, "released") EXCEPT ![t] = "get_my_ip"]
        /\ txOpen' = [txOpen EXCEPT ![t] = TRUE]
        /\ progOpen' = [progOpen EXCEPT ![t] = TRUE]
        /\ nodes' = <<>>
        /\ tracing' = TRUE
        /\ consumed' = Keep(consumed, TRUE, <<>>)
        /\ emitted' = Keep(emitted, TRUE, <<>>)
        /\ worker' = Keep(worker, TRUE, "none")
        /\ enrich' = Keep(enrich, TRUE, "none")
        /\ hopsOut' = Keep(hopsOut, TRUE, 0)
        /\ selfOk' = Keep(selfOk, TRUE, FALSE)
        /\ locOk' = Keep(locOk, TRUE, {})
        /\ trace_guard' = "free"
        /\ fpc' = "end_row"
        /\ UNCHANGED <<rvars, ip_guard, chan, txq, progq>>

(* The row's closure ends: ip_guard is dropped *)
EndRow ==
    /\ fpc = "end_row"
    /\ ip_guard' = "free"
    /\ fpc' = "lock_trace_poll"
    /\ UNCHANGED <<rvars, trace_guard, nodes, tracing, chan, started, target,
                   pc, txq, txOpen, progq, progOpen, worker, hopsOut, enrich,
                   emitted, consumed, selfOk, locOk>>

(* trace_channel.lock() before the poll *)
LockTracePoll ==
    /\ fpc = "lock_trace_poll"
    /\ trace_guard = "free"
    /\ trace_guard' = "ui"
    /\ fpc' = "poll"
    /\ UNCHANGED <<rvars, ip_guard, nodes, tracing, chan, started, target,
                   pc, txq, txOpen, progq, progOpen, worker, hopsOut, enrich,
                   emitted, consumed, selfOk, locOk>>

(* The poll, try_recv and the match on the event; the window's closure     *)
(* ends and trace_guard is dropped.                                        *)
Poll ==
    LET got == TryRecv(chan)
    IN  /\ fpc = "poll"
        /\ chan' = SubSeq(chan, Len(got) + 1, Len(chan))
        /\ nodes' = PollNodes(nodes, got)
        /\ tracing' = PollTracing(tracing, got)
        /\ consumed' = [t \in Traces |->
              consumed[t] \o SelectSeq(got, LAMBDA e : e.node.trace = t)]
        /\ trace_guard' = "free"
        /\ fpc' = "idle"
        /\ UNCHANGED <<rvars, ip_guard, started, target, pc, txq, txOpen,
                       progq, progOpen, worker, hopsOut, enrich, emitted,
                       selfOk, locOk>>

(* A step of enter_ip *)
UiStep ==
    \/ \E click \in BOOLEAN : LockIp(click)
    \/ LockTraceStart
    \/ \E tgt \in Targets : StartTrace(tgt)
    \/ EndRow
    \/ LockTracePoll
    \/ Poll

LockNext ==
    \/ \E click \in BOOLEAN : LockIp(click)
    \/ LockTraceStart
    \/ \E tgt \in Targets : StartTrace(tgt)
    \/ EndRow
    \/ LockTracePoll
    \/ Poll
    \/ \E t \in Traces : GetMyIp(t)
    \/ \E t \in Traces : GetSelfLocation(t)
    \/ \E t \in Traces : Resolve(t)
    \/ \E t \in Traces : SpawnWorkers(t)
    \/ \E t \in Traces : Forward(t)
    \/ \E t \in Traces : TracerNew(t)
    \/ \E t \in Traces : WorkerRecv(t)
    \/ \E t \in Traces : WorkerEnd(t)
    \/ \E t \in Traces : Enrich(t)
    \/ \E t \in Traces : EnrichFinish(t)

LockSpec == Init /\ [][LockNext]_vars

(***************************************************************************)
(* Properties                                                              *)
(***************************************************************************)

NodeCount(s) == Cardinality({i \in 1..Len(s) : IsNode(s[i])})
FinishCount(s) == Cardinality({i \in 1..Len(s) : IsFinish(s[i])})

(* The events of hops (not of the local vantage point) in s *)
HopNodeCount(s) ==
    Cardinality({i \in 1..Len(s) : IsNode(s[i]) /\ s[i].node.hop > 0})

(* trace(t) returned through the "Handle DNS resolution failure" branch *)
ResolutionFailed(t) == pc[t] \in {"forward", "done"} /\ enrich[t] = "none"

(* The TraceNode components of nodes *)
NodesOnly == [i \in 1..Len(nodes) |-> nodes[i][2]]

(* trace t has been started and every sender of its channel is dropped:  *)
(* it can emit no further event.                                           *)
Ended(t) == pc[t] \in {"forward", "done"} /\ ~txOpen[t]

(* C1: in the events a trace emits a Finish is only ever the last one (so  *)
(* every Node precedes it, nothing follows it, and there is at most one),  *)
(* and a trace that can emit no more has emitted exactly one Finish,       *)
(* whether it ended through the hop stream or through a failed target      *)
(* resolution.                                                             *)
C1_NodesThenOneFinish ==
    \A t \in Traces :
        /\ \A i \in 1..Len(emitted[t]) :
              IsFinish(emitted[t][i]) => i = Len(emitted[t])
        /\ Ended(t) => FinishCount(emitted[t]) = 1

(* A trace has ended through the hop stream after emitting its local node  *)
(* and a hop node.                                                         *)
C1_Witness ==
    \E t \in Traces :
        /\ Ended(t)
        /\ worker[t] = "done"
        /\ enrich[t] = "done"
        /\ selfOk[t]
        /\ HopNodeCount(emitted[t]) >= 1

(* C2: the indices stored in nodes are 0, 1, ..., len-1 in sequence order: *)
(* nodes is what enumerate() makes of its own TraceNodes.                  *)
C2_IndicesContiguous == nodes = set_path(NodesOnly)

(* Two nodes are in the path of a trace whose self lookup and whose second *)
(* hop lookup failed.                                                      *)
C2_Witness ==
    /\ started >= 1
    /\ ~selfOk[started]
    /\ locOk[started] = {1, 3}
    /\ Len(nodes) = 2

(* C3 as claimed: a trace whose target does not resolve emits no Node and  *)
(* exactly one Finish, whatever the self lookups returned.                 *)
C3_Original ==
    \A t \in Traces :
        ResolutionFailed(t) =>
            NodeCount(emitted[t]) = 0 /\ FinishCount(emitted[t]) = 1

(* C3 amended: a trace whose target does not resolve emits no hop Node and *)
(* exactly one Finish; it emits the "Local" Node before the Finish exactly *)
(* when the self-IP and self-location lookups both succeeded.              *)
C3_UnresolvedEmitsLocalAndFinish ==
    \A t \in Traces :
        ResolutionFailed(t) =>
            emitted[t] = (IF selfOk[t] THEN <<NodeEvent(t, 0)>> ELSE <<>>)
                            \o <<FinishEvent(t)>>

(* An unresolved trace whose self lookups succeeded has been consumed. *)
C3_Witness ==
    \E t \in Traces :
        /\ ResolutionFailed(t)
        /\ selfOk[t]
        /\ consumed[t] = emitted[t]

(* The hop numbers of the hop nodes in nodes, in sequence order *)
HopsInNodes ==
    LET hs == SelectSeq(NodesOnly, LAMBDA n : n.hop > 0)
    IN  [i \in 1..Len(hs) |-> hs[i].hop]

(* C4: once the Finish of the latest trace is consumed, with S the hops    *)
(* whose lookup succeeded, nodes has |S| elements, one more when the self  *)
(* lookup succeeded, and its hop nodes are the hops of S in discovery      *)
(* order.                                                                  *)
C4_LengthAndOrder ==
    (started >= 1 /\ ~tracing) =>
        LET t == started
        IN  /\ Len(nodes) = Cardinality(locOk[t]) + (IF selfOk[t] THEN 1 ELSE 0)
            /\ {HopsInNodes[i] : i \in 1..Len(HopsInNodes)} = locOk[t]
            /\ \A i, j \in 1..Len(HopsInNodes) :
                  i < j => HopsInNodes[i] < HopsInNodes[j]

(* A finished trace with its local node that lost its middle hop and kept  *)
(* the hops around it.                                                     *)
C4_Witness ==
    /\ started >= 1
    /\ ~tracing
    /\ selfOk[started]
    /\ locOk[started] = {1, 3}
    /\ HopsInNodes = <<1, 3>>

(* C5 as claimed: after Tracer::new failed in the worker of a trace, the   *)
(* trace emits no Finish, and tracing stays true.                          *)
C5_Original ==
    \A t \in Traces :
        worker[t] = "panicked" =>
            /\ FinishCount(emitted[t]) = 0
            /\ t = started => tracing

(* C5 amended: after Tracer::new failed in the worker of a trace, the      *)
(* trace emits no hop Node, and it does emit its Finish: the panic drops   *)
(* progress_tx, the enrichment loop ends, and once that Finish is consumed *)
(* tracing is false.                                                       *)
C5_InitFailureStillFinishes ==
    /\ [](\A t \in Traces :
             worker[t] = "panicked" => HopNodeCount(emitted[t]) = 0)
    /\ \A t \in Traces :
          (worker[t] = "panicked") ~>
              (FinishCount(emitted[t]) = 1 /\ ~tracing)

(* The Finish of a trace whose worker panicked has been consumed. *)
C5_Witness ==
    \E t \in Traces :
        /\ worker[t] = "panicked"
        /\ t = started
        /\ ~tracing
        /\ FinishCount(consumed[t]) = 1

(* A Finish is consumed by the step *)
FinishConsumed ==
    \E t \in Traces :
        /\ Len(consumed'[t]) = Len(consumed[t]) + 1
        /\ IsFinish(consumed'[t][Len(consumed'[t])])

(* C6: tracing becomes true only in a step that starts a trace, a step     *)
(* that starts a trace leaves tracing true and nodes empty, tracing        *)
(* becomes false only in a step that consumes a Finish, and under fair     *)
(* scheduling of the worker, the tasks and the UI poll a trace in progress *)
(* is eventually followed by tracing being false.                          *)
C6_TracingLifecycle ==
    /\ [][/\ (~tracing /\ tracing') => started' = started + 1
          /\ started' # started => (tracing' /\ nodes' = <<>>)
          /\ (tracing /\ ~tracing') => FinishConsumed]_vars
    /\ tracing ~> ~tracing

(* A trace that went through the hop stream has had its Finish consumed. *)
C6_Witness ==
    /\ started >= 1
    /\ ~tracing
    /\ enrich[started] = "done"
    /\ FinishCount(consumed[started]) = 1

(* C7: a step that starts a trace (clears nodes, spawns the task) is never *)
(* taken in a state where tracing is true.                                 *)
C7_NoStartWhileTracing == [][started' # started => ~tracing]_vars

(* A second trace is in progress with events of it waiting in the channel: *)
(* frames run here, and none of them may start a third trace.              *)
C7_Witness ==
    /\ started = 2
    /\ tracing
    /\ chan # <<>>

(* nodes holds a node of a trace other than the latest one *)
StaleNode == \E i \in 1..Len(nodes) : nodes[i][2].trace # started

(* C8 as claimed: events of a previous trace arrive after the start of a   *)
(* new one and are appended to its nodes, so that nodes comes to hold a    *)
(* node of a trace other than the latest one.                              *)
C8_Original == (started >= 2) ~> StaleNode

(* C8 amended: no stop signal is sent to a previous trace, but a trace is  *)
(* only started when tracing is false, that is after the Finish of the     *)
(* previous trace, its last event, was consumed: at every start every      *)
(* earlier trace is over, and every node in nodes is a node of the latest  *)
(* trace.                                                                  *)
C8_NoStaleNode ==
    /\ ~StaleNode
    /\ \A t \in Traces : (t < started /\ pc[t] # "released") => Over(t)

(* A second trace, started after the first one ended, has appended nodes. *)
C8_Witness ==
    /\ started >= 2
    /\ Len(nodes) >= 2

(* The number of events consumed so far *)
ConsumedTotal(c) ==
    LET RECURSIVE Sum(_)
        Sum(t) == IF t = 0 THEN 0 ELSE Len(c[t]) + Sum(t - 1)
    IN  Sum(MaxTraces)

(* C9: no step takes more than one event out of the channel, makes nodes   *)
(* grow by more than one element, or both appends a node and sets tracing  *)
(* false.                                                                  *)
C9_AtMostOneEventPerFrame ==
    [][/\ Len(chan') >= Len(chan) - 1
       /\ Len(nodes') <= Len(nodes) + 1
       /\ ~(Len(nodes') > Len(nodes) /\ tracing /\ ~tracing')]_vars

(* A poll has taken an event while two more were queued behind it. *)
C9_Witness ==
    /\ Len(chan) >= 2
    /\ Len(nodes) >= 1

(* The events of trace t waiting in the channel, in channel order *)
InChan(t) == SelectSeq(chan, LAMBDA e : e.node.trace = t)

(* C10: for every trace, the events consumed by the poll, followed by its  *)
(* events waiting in the std channel, followed by those waiting in the     *)
(* tokio channel, are the events it emitted, in emission order: no event   *)
(* is lost, duplicated or reordered on the way.                            *)
C10_BridgeFifoLossless ==
    \A t \in Traces : consumed[t] \o InChan(t) \o txq[t] = emitted[t]

(* A whole trace of four events has crossed the bridge. *)
C10_Witness ==
    \E t \in Traces :
        /\ Len(emitted[t]) >= 4
        /\ consumed[t] = emitted[t]

(* C11: when the self-IP lookup and its location lookup succeeded for the  *)
(* latest trace and nodes is not empty, the first element of nodes is the  *)
(* local vantage node with hostname "Local", and every hop node comes      *)
(* after it.                                                               *)
C11_LocalNodeFirst ==
    (started >= 1 /\ selfOk[started] /\ nodes # <<>>) =>
        /\ nodes[1][1] = 0
        /\ nodes[1][2] = TraceNode(started, 0)
        /\ nodes[1][2].hostname = "Local"
        /\ \A i \in 2..Len(nodes) : nodes[i][2].hop > 0

(* The local node and two hop nodes of a trace are in nodes. *)
C11_Witness ==
    /\ started >= 1
    /\ selfOk[started]
    /\ Len(nodes) >= 3

(* C17: a frame can be taken in every state; a step that finds the channel *)
(* empty and starts no trace leaves nodes and tracing as they are; and     *)
(* with no fairness of the UI at all (the poll may never run) every        *)
(* started trace still sends its Finish and its task hands every event to  *)
(* the std channel and ends: no send waits for the poll.                   *)
C17_NeverBlocks ==
    /\ [](ENABLED Frame)
    /\ [][(chan = <<>> /\ started' = started) =>
              (nodes' = nodes /\ tracing' = tracing)]_vars
    /\ \A t \in Traces :
          (pc[t] \notin {"unspawned", "released"}) ~>
              (pc[t] \in {"done", "released"} /\
                  (pc[t] = "done" => FinishCount(emitted[t]) = 1))

(* A trace has ended with all its events, five of them, waiting in the     *)
(* channel: none was polled.                                               *)
C17_Witness ==
    \E t \in Traces :
        /\ pc[t] = "done"
        /\ consumed[t] = <<>>
        /\ Len(chan) = 5
        /\ chan = emitted[t]

(* No context of trace t can emit an event any more: its orchestrator and *)
(* forwarding task, its worker thread and its enrichment task have ended   *)
(* (or never ran) and nothing is in flight in its channels.                *)
Quiet(t) ==
    /\ pc[t] \in {"unspawned", "done", "released"}
    /\ txq[t] = <<>>
    /\ progq[t] = <<>>
    /\ worker[t] \in {"none", "done", "panicked"}
    /\ enrich[t] \in {"none", "done"}

(* C18: whenever tracing is false the channel is empty and every trace is  *)
(* quiet; and, in every state, every node in nodes was emitted by the      *)
(* latest trace.                                                           *)
C18_IdleMeansQuiet ==
    /\ ~tracing => (chan = <<>> /\ \A t \in Traces : Quiet(t))
    /\ \A i \in 1..Len(nodes) :
          /\ nodes[i][2].trace = started
          /\ \E j \in 1..Len(emitted[started]) :
                emitted[started][j] = [kind |-> "Node", node |-> nodes[i][2]]

(* The third trace has ended with nodes appended: tracing is false again. *)
C18_Witness ==
    /\ ~tracing
    /\ started = 3
    /\ Len(nodes) >= 2

(* s is a prefix of r *)
IsPrefix(s, r) == Len(s) <= Len(r) /\ SubSeq(r, 1, Len(s)) = s

(* A step of one of the producer-side contexts: the task (orchestrator,   *)
(* forwarding loop), the worker thread or the enrichment task.             *)
ProducerStep ==
    \E t \in Traces :
        \/ GetMyIp(t) \/ GetSelfLocation(t) \/ Resolve(t) \/ SpawnWorkers(t)
        \/ Forward(t) \/ TracerNew(t) \/ WorkerRecv(t) \/ WorkerEnd(t)
        \/ Enrich(t) \/ EnrichFinish(t)

(* C19: in every step, (a) taking a Node off the channel appends exactly   *)
(* that node, with the old length as its index, at the end of nodes and    *)
(* leaves tracing alone; (b) taking a Finish off the channel leaves nodes  *)
(* alone and sets tracing false; (c) a step after which the old nodes is   *)
(* not a prefix of the new one is the start of a trace, which empties      *)
(* nodes and sets tracing; (d) a step of a producer-side context changes   *)
(* neither nodes nor tracing, every change being made by a frame.          *)
C19_NodesAppendOnly ==
    [][/\ (chan # <<>> /\ chan' = Tail(chan) /\ IsNode(Head(chan))) =>
              /\ nodes' = Append(nodes, <<Len(nodes), Head(chan).node>>)
              /\ tracing' = tracing
       /\ (chan # <<>> /\ chan' = Tail(chan) /\ IsFinish(Head(chan))) =>
              /\ nodes' = nodes
              /\ tracing' = FALSE
       /\ ~IsPrefix(nodes, nodes') =>
              /\ started' = started + 1
              /\ nodes' = <<>>
              /\ tracing'
       /\ ProducerStep => (nodes' = nodes /\ tracing' = tracing)
       /\ (nodes' # nodes \/ tracing' # tracing) => Frame
      ]_vars

(* The Finish of a trace was consumed and the three nodes appended before  *)
(* it are still in nodes.                                                  *)
C19_Witness ==
    /\ ~tracing
    /\ Len(nodes) = 3
    /\ FinishCount(consumed[started]) = 1

(* p lies in the closed rectangle rect *)
InRect(p, rect) ==
    /\ QLe(rect.min[1], p[1]) /\ QLe(p[1], rect.max[1])
    /\ QLe(rect.min[2], p[2]) /\ QLe(p[2], rect.max[2])

(* The segments of the path: the pairs of projected positions of          *)
(* neighbouring nodes.                                                     *)
Segments == {<<proj[i - 1], proj[i]>> : i \in 2..Len(proj)}

(* C12: for every segment of the path whose two ends lie in the closed     *)
(* viewport, line_rect_intersection returns Some of exactly the two ends,  *)
(* in their order, and so does every call the frame made on such a         *)
(* segment; and for every segment, clipping a returned pair again returns  *)
(* that pair.                                                              *)
C12_InsideUnchangedAndIdempotent ==
    /\ \A s \in Segments :
          LET r == line_rect_intersection(s[1], s[2], screen_rect)
          IN  /\ (InRect(s[1], screen_rect) /\ InRect(s[2], screen_rect))
                     => r = Some(s)
              /\ r # None =>
                     line_rect_intersection(r[1][1], r[1][2], screen_rect) = r
    /\ \A k \in 1..Len(clipped) :
          LET c == clipped[k]
          IN  /\ c.result = line_rect_intersection(c.start, c.end, screen_rect)
              /\ (InRect(c.start, screen_rect) /\ InRect(c.end, screen_rect))
                     => c.result = Some(<<c.start, c.end>>)

(* The frame clipped the diagonal of the viewport, from corner to corner:  *)
(* both ends on the boundary.                                              *)
C12_Witness ==
    /\ clipped # <<>>
    /\ clipped[1].start = Pos(100, 60)
    /\ clipped[1].end = Pos(0, 0)
    /\ clipped[1].result = Some(<<Pos(100, 60), Pos(0, 0)>>)

(* a and b lie strictly outside rect on the same side of it *)
SameSideOutside(a, b, rect) ==
    \/ QLt(a[1], rect.min[1]) /\ QLt(b[1], rect.min[1])
    \/ QGt(a[1], rect.max[1]) /\ QGt(b[1], rect.max[1])
    \/ QLt(a[2], rect.min[2]) /\ QLt(b[2], rect.min[2])
    \/ QGt(a[2], rect.max[2]) /\ QGt(b[2], rect.max[2])

(* The drawing loop of the frame has ended *)
Drawn == rpc \in {"hover", "done"} /\ nodes # <<>>

(* C13: for a segment whose two ends lie strictly outside the viewport on  *)
(* the same side, line_rect_intersection returns None; and once the frame  *)
(* has drawn the path, no arrow was placed on such a segment, no call of   *)
(* the clipping on it returned a visible part, and the line between its    *)
(* two ends, unclipped, is among the lines drawn.                          *)
C13_OutsideSameSide ==
    /\ \A s \in Segments :
          SameSideOutside(s[1], s[2], screen_rect) =>
              line_rect_intersection(s[1], s[2], screen_rect) = None
    /\ Drawn =>
          \A i \in 2..Len(nodes) :
              SameSideOutside(proj[i - 1], proj[i], screen_rect) =>
                  /\ \A k \in 1..Len(arrow_segments) :
                        arrow_segments[k].seg # i
                  /\ \A k \in 1..Len(clipped) :
                        clipped[k].seg = i => clipped[k].result = None
                  /\ Len(lines) = Len(nodes) - 1
                  /\ lines[i - 1] = <<proj[i - 1], proj[i]>>

(* A segment along the left of the viewport, wholly outside, was drawn as  *)
(* a line without arrows.                                                  *)
C13_Witness ==
    /\ rpc = "done"
    /\ proj = <<Pos(-40, -30), Pos(-40, 90)>>
    /\ lines = <<<<Pos(-40, -30), Pos(-40, 90)>>>>
    /\ arrow_segments = <<>>

(* The arrows placed on the segment that ends at element seg of nodes *)
ArrowsOf(seg) == SelectSeq(arrow_segments, LAMBDA a : a.seg = seg)

Colours == [i \in 1..Len(circles) |-> circles[i][3]]

(* C15: once the frame has drawn a path of n >= 1 nodes, one circle was    *)
(* drawn per node, in order, at the node's projected position; the circle  *)
(* of node 0 has the start colour, that of node n - 1 the end colour when  *)
(* n - 1 is not 0, every other one the midpoint colour.  A path of one     *)
(* node has one circle in the start colour; a path of five nodes has the   *)
(* colours start, mid, mid, mid, end.                                      *)
C15_NodeColours ==
    Drawn =>
      LET n == Len(nodes)
      IN  /\ Len(circles) = n
          /\ \A i \in 1..n :
                /\ circles[i][1] = i - 1
                /\ circles[i][2] = proj[i]
                /\ i - 1 = 0 => circles[i][3] = "GREEN"
                /\ (i - 1 = n - 1 /\ n - 1 # 0) => circles[i][3] = "RED"
                /\ (i - 1 # 0 /\ i - 1 # n - 1) => circles[i][3] = "YELLOW"
          /\ n = 1 => Colours = <<"GREEN">>
          /\ n = 5 =>
                Colours = <<"GREEN", "YELLOW", "YELLOW", "YELLOW", "RED">>

(* A path of one node was drawn *)
C15_Witness ==
    /\ rpc = "done"
    /\ Len(nodes) = 1
    /\ Len(circles) = 1

(* The elements of nodes whose projected position is at a distance of     *)
(* less than 10 from the pointer.                                          *)
Hits ==
    {i \in 1..Len(nodes) :
        /\ hover_pos # None
        /\ QLt(LengthSq(hover_pos[1], proj[i]), Q(10 * 10))}

Lowest(S) == CHOOSE m \in S : \A j \in S : m <= j

(* C16: the hover handling of a frame shows at most one tooltip.  With no  *)
(* node at a distance below 10 of the pointer (a node at exactly 10 does   *)
(* not count, nor does any node when there is no pointer) no tooltip is    *)
(* shown and neither the clipboard output nor the copied timer is written. *)
(* Otherwise the tooltip is that of the lowest such element; on a click    *)
(* the clipboard output is the IP of that node and the copied timer is set *)
(* to the frame's time; without a click the clipboard output is left       *)
(* alone.                                                                  *)
C16_HoverSelectsLowest ==
    [][(rpc = "hover" /\ rpc' = "done") =>
          /\ Hits = {} =>
                /\ tooltip' = None
                /\ copied_text' = copied_text
                /\ copy_anim_time' = copy_anim_time
          /\ (hover_pos = Some(Pos(50, 30)) /\ proj = <<Pos(56, 38)>>) =>
                tooltip' = None
          /\ Hits # {} =>
                LET node == nodes[Lowest(Hits)]
                IN  /\ tooltip' # None
                    /\ tooltip'[1].idx = node[1]
                    /\ tooltip'[1].ip = NodeIp(node[2])
                    /\ any_click =>
                          /\ copied_text' = Some(NodeIp(node[2]))
                          /\ copy_anim_time' = Some(time)
                    /\ ~any_click => copied_text' = copied_text
      ]_vars

(* The pointer was near the nodes 0 and 1 of a path of three when the      *)
(* mouse was clicked: the tooltip is that of node 0 and its IP was copied. *)
C16_Witness ==
    /\ rpc = "done"
    /\ Len(nodes) = 3
    /\ hover_pos = Some(Pos(53, 34))
    /\ any_click
    /\ tooltip # None
    /\ tooltip[1].idx = 0
    /\ copied_text = Some(NodeIp(nodes[1][2]))
    /\ copy_anim_time = Some(FrameTime)

QMax(a, b) == IF QLt(a, b) THEN b ELSE a
QMin(a, b) == IF QLt(b, a) THEN b ELSE a

(* The parameters t in [0, 1] for which coordinate d of a + t (b - a) lies *)
(* in [lo, hi], as <<feasible, least, greatest>>.                          *)
AxisRange(a, b, lo, hi, d) ==
    LET delta == QSub(b[d], a[d])
        tlo == QDiv(QSub(lo, a[d]), delta)
        thi == QDiv(QSub(hi, a[d]), delta)
    IN  IF delta = Q(0)
        THEN <<QLe(lo, a[d]) /\ QLe(a[d], hi), Q(0), Q(1)>>
        ELSE IF QGt(delta, Q(0))
        THEN <<TRUE, QMax(Q(0), tlo), QMin(Q(1), thi)>>
        ELSE <<TRUE, QMax(Q(0), thi), QMin(Q(1), tlo)>>

(* The segment from a to b has a point in the closed rectangle rect: the   *)
(* ranges of the parameter for the two axes meet.                          *)
MeetsRect(a, b, rect) ==
    LET rx == AxisRange(a, b, rect.min[1], rect.max[1], 1)
        ry == AxisRange(a, b, rect.min[2], rect.max[2], 2)
    IN  /\ rx[1] /\ ry[1]
        /\ QLe(QMax(rx[2], ry[2]), QMin(rx[3], ry[3]))

(* p lies on the segment from a to b: on its line (cross product 0) and    *)
(* within its bounding box.                                                *)
OnSegment(p, a, b) ==
    /\ QMul(QSub(p[1], a[1]), QSub(b[2], a[2]))
           = QMul(QSub(p[2], a[2]), QSub(b[1], a[1]))
    /\ InRect(p, RectFromTwoPos(a, b))

(* C20: for every segment of the path, line_rect_intersection returns None *)
(* exactly when the segment has no point in the closed viewport; the two   *)
(* points of a Some lie in the closed viewport and on the segment.  The    *)
(* same holds of every call the frame made, and the tip of every arrow     *)
(* placed lies in the closed viewport, on the segment and on its returned  *)
(* visible part.                                                           *)
C20_ClipIsVisiblePart ==
    /\ \A s \in Segments :
          LET r == line_rect_intersection(s[1], s[2], screen_rect)
          IN  /\ r = None <=> ~MeetsRect(s[1], s[2], screen_rect)
              /\ r # None =>
                    \A e \in 1..2 :
                        /\ InRect(r[1][e], screen_rect)
                        /\ OnSegment(r[1][e], s[1], s[2])
    /\ \A k \in 1..Len(clipped) :
          LET c == clipped[k]
          IN  /\ c.result = None <=> ~MeetsRect(c.start, c.end, screen_rect)
              /\ c.result # None =>
                    \A e \in 1..2 :
                        /\ InRect(c.result[1][e], screen_rect)
                        /\ OnSegment(c.result[1][e], c.start, c.end)
    /\ \A j \in 1..Len(arrow_segments) :
          \E k \in 1..Len(clipped) :
              LET c == clipped[k]
                  p == arrow_segments[j].arrow_pos
              IN  /\ c.seg = arrow_segments[j].seg
                  /\ c.result # None
                  /\ InRect(p, screen_rect)
                  /\ OnSegment(p, c.start, c.end)
                  /\ OnSegment(p, c.result[1][1], c.result[1][2])

(* The segment from (-40,-30) to (140,90) crosses the viewport: both ends  *)
(* were cut, to (5,0) and (95,60), and arrows were placed in between.      *)
C20_Witness ==
    /\ rpc = "done"
    /\ proj = <<Pos(-40, -30), Pos(140, 90)>>
    /\ clipped[1].result = Some(<<Pos(5, 0), Pos(95, 60)>>)
    /\ Len(arrow_segments) = 3

(* Rectangles with min <= max: the viewport, a narrower one, and the      *)
(* degenerate ones (a horizontal line, a vertical line, a point).          *)
Rects ==
    {screen_rect,
     [min |-> Pos(10, 0), max |-> Pos(90, 60)],
     [min |-> Pos(0, 30), max |-> Pos(100, 30)],
     [min |-> Pos(5, 0), max |-> Pos(5, 60)],
     [min |-> Pos(5, 30), max |-> Pos(5, 30)]}

(* Rounds of the loop followed at most when its rounds are counted *)
MaxRounds == 8

(* The number of rounds of the loop that clip before it returns, counted   *)
(* up from n; the count stops at MaxRounds.                                *)
RECURSIVE ClipRounds(_, _, _)
ClipRounds(c, rect, n) ==
    IF ClipReturns(c) \/ n >= MaxRounds THEN n
    ELSE ClipRounds(ClipStep(c, rect), rect, n + 1)

(* The end the round moves (1 or 2), the code it looks at, and the        *)
(* divisor of the branch it takes.                                         *)
ClipEnd(c) == IF c.code1 # 0 THEN 1 ELSE 2
ClipCode(c) == IF c.code1 # 0 THEN c.code1 ELSE c.code2
ClipDivisor(c) ==
    IF BitAnd(ClipCode(c), TOP) # 0 \/ BitAnd(ClipCode(c), BOTTOM) # 0
    THEN QSub(c.y2, c.y1)
    ELSE QSub(c.x2, c.x1)

(* Point p lies on the line of a side of rect that the code names *)
OnViolatedLine(p, code, rect) ==
    \/ BitAnd(code, LEFT) # 0 /\ p[1] = rect.min[1]
    \/ BitAnd(code, RIGHT) # 0 /\ p[1] = rect.max[1]
    \/ BitAnd(code, TOP) # 0 /\ p[2] = rect.min[2]
    \/ BitAnd(code, BOTTOM) # 0 /\ p[2] = rect.max[2]

(* The round of the loop on locals c that gives locals d is as C21 says:   *)
(* the divisor is not zero, the end that was outside (the first one when   *)
(* both were) is moved onto the line of a side it was beyond, to a finite  *)
(* point, and the other end stays.                                         *)
GoodRound(c, d, rect) ==
    LET p == IF ClipEnd(c) = 1 THEN <<d.x1, d.y1>> ELSE <<d.x2, d.y2>>
    IN  /\ ClipCode(c) # 0
        /\ ClipDivisor(c) # Q(0)
        /\ ClipDivisor(c) # NaN
        /\ p[1] # NaN /\ p[2] # NaN
        /\ OnViolatedLine(p, ClipCode(c), rect)
        /\ IF ClipEnd(c) = 1
           THEN d.x2 = c.x2 /\ d.y2 = c.y2 /\ d.code2 = c.code2
           ELSE d.x1 = c.x1 /\ d.y1 = c.y1 /\ d.code1 = c.code1

(* Every round of the loop from locals c on is good *)
RECURSIVE GoodRounds(_, _, _)
GoodRounds(c, rect, n) ==
    \/ ClipReturns(c)
    \/ /\ n < 4
       /\ GoodRound(c, ClipStep(c, rect), rect)
       /\ GoodRounds(ClipStep(c, rect), rect, n + 1)

(* No call of the frame has made more than four clips, and as a function  *)
(* line_rect_intersection returns after at most four clips, every one of   *)
(* them a good round, for every segment of the path and every rectangle    *)
(* of Rects, the degenerate ones included.                                 *)
ClipsBounded ==
    /\ clip_rounds <= 4
    /\ \A rect \in Rects : \A s \in Segments :
          /\ ClipRounds(ClipStart(s[1], s[2], rect), rect, 0) <= 4
          /\ GoodRounds(ClipStart(s[1], s[2], rect), rect, 0)

(* The locals of the loop after n rounds that clip, from locals c *)
RECURSIVE ClipAfter(_, _, _)
ClipAfter(c, rect, n) ==
    IF n = 0 THEN c ELSE ClipAfter(ClipStep(c, rect), rect, n - 1)

(* C21: ClipsBounded holds in every state; and while the loop of a call    *)
(* of the frame runs, its locals are those that clip_rounds rounds made of *)
(* the two ends of the segment, and every round still to come has a        *)
(* divisor other than zero, moves the outside end onto the line of a side  *)
(* it was beyond, and keeps the number of clips of the call at four or     *)
(* less: the loop returns after at most four clips.                        *)
C21_ClipLoopTerminates ==
    /\ ClipsBounded
    /\ rpc = "clip" =>
          /\ clip[1] = ClipAfter(ClipStart(last_screen_pos[1], proj[ri],
                                           screen_rect),
                                 screen_rect, clip_rounds)
          /\ GoodRounds(clip[1], screen_rect, clip_rounds)

(* The call on the segment from (-40,-10) to (140,70) has returned after   *)
(* four clips: top then left for the first end, bottom then right for the  *)
(* second one.                                                             *)
C21_Witness ==
    /\ rpc = "done"
    /\ proj = <<Pos(-40, -10), Pos(140, 70)>>
    /\ clip_rounds = 4
    /\ clipped[1].result # None

(* Trace t is in a network lookup: the self lookups of its task, or the    *)
(* geolocation lookup of a hop in its enrichment task.                     *)
InLookup(t) ==
    \/ pc[t] \in {"get_my_ip", "get_location"}
    \/ enrich[t] = "recv" /\ progq[t] # <<>>

(* C22: each of the two mutexes is free or held by the UI, never by a      *)
(* spawned task, whether or not a task is in a network lookup; between     *)
(* frames both are free; where enter_ip asks for a mutex, that mutex is    *)
(* free (in particular not held by enter_ip itself), so that, in every     *)
(* state, enter_ip has a step to take.                                     *)
C22_GuardsShortAndUiOnly ==
    /\ ip_guard \in {"free", "ui"}
    /\ trace_guard \in {"free", "ui"}
    /\ fpc = "idle" => (ip_guard = "free" /\ trace_guard = "free")
    /\ fpc \in {"lock_trace_start", "lock_trace_poll"} => trace_guard = "free"
    /\ fpc \in {"spawn", "poll"} => trace_guard = "ui"
    /\ ENABLED UiStep

(* enter_ip holds the trace-channel mutex for its poll while the task of   *)
(* the second trace is in a network lookup.                                *)
C22_Witness ==
    /\ fpc = "poll"
    /\ trace_guard = "ui"
    /\ started = 2
    /\ InLookup(2)

====
